---- MODULE Spec2Model ----
(***************************************************************************)
(* Model of run_onion_portal.py: the command resolver with its memoized    *)
(* _COMPOSE_CMD, the stack driver run_compose, the readiness poller        *)
(* wait_for_service, the controller start_stack and the preference         *)
(* reconciler ensure_i2p_proxy_settings with the script it runs inside     *)
(* the i2p-browser service.                                                *)
(*                                                                         *)
(* Text is modelled as a sequence of tokens.  A token is a string; the     *)
(* text it stands for is the concatenation of its tokens.  The tokens of a *)
(* line are maximal lexical units: the prefix user_pref(" is always the    *)
(* one token UP, a double quote elsewhere is always the one token Q, a     *)
(* blank or tab at either end of a line is always a token of its own, and  *)
(* no other token contains a double quote.                                 *)
(***************************************************************************)
EXTENDS Integers, Sequences, FiniteSets, TLC

VARIABLES
    host,           \* what the search path and the docker CLI answer right now
    composeCmd,     \* _COMPOSE_CMD
    pc,             \* position of the single thread of control
    ctl,            \* controller state of the current start_stack run
    trace,          \* the controller states the current start_stack run went through
    calls,          \* verbs of the run_compose calls of the current start_stack run
    now,            \* wall clock, seconds since wait_for_service was entered
    deadline,       \* wait_for_service's local deadline
    upExit,         \* exit status of up in the current run, -1 before it returns
    waitResult,     \* what wait_for_service returned in the current run
    last,           \* observation of the latest run_compose call
    ops,            \* menu choices served so far
    probeCalls,     \* get_compose_base_cmd calls that probed the host so far
    errCount,       \* "Docker Compose no está disponible" messages so far
    file,           \* /config/firefox/i2p.default/user.js inside the service
    lines,          \* the script's local: lines
    updated_lines,  \* the script's local: updated_lines
    seen,           \* the script's local: seen
    started,        \* whether the exec of the current run started the script
    exitStatus,     \* exit status of the latest exec, -1 before it returns
    report,         \* what ensure_i2p_proxy_settings logged in the current run
    fileAtExec,     \* the file when the latest exec started
    outs,           \* the file after each write of the script, oldest first
    interval,       \* wait_for_service's parameter poll_interval
    sleeps,         \* time.sleep calls of the current wait_for_service call
    result,         \* wait_for_service's local: result of the latest ps query,
                    \* from the query's return to the sleep that follows it
    allInstant,     \* whether every ps query of the current wait took no time
    loggedCode,     \* exit status named by the latest log_err message, -1 if none
    extWrote        \* whether another process wrote the file during the latest exec

vars == << host, composeCmd, pc, ctl, trace, calls, now, deadline, upExit, waitResult,
           last, ops, probeCalls, errCount, file, lines, updated_lines, seen,
           started, exitStatus, report, fileAtExec, outs, interval, sleeps,
           result, allInstant, loggedCode, extWrote >>

(***************************************************************************)
(* Bounds of the model.                                                    *)
(***************************************************************************)
MaxLines == 2       \* lines of the preference file drawn at Init
MaxOps == 2         \* menu choices per behaviour
MaxTimeout == 4     \* largest timeout wait_for_service is entered with, seconds
MaxInterval == 2    \* largest poll interval wait_for_service is entered with, seconds

(***************************************************************************)
(* Program constants.                                                      *)
(***************************************************************************)
PROJECT_NAME == "darkweb_portal"
I2P_SERVICE_NAME == "i2p-browser"
Timeout == 120
PollInterval == 2

StrV(x) == [t |-> "str", s |-> x, n |-> 0, b |-> FALSE]
IntV(x) == [t |-> "int", s |-> "", n |-> x, b |-> FALSE]
BoolV(x) == [t |-> "bool", s |-> "", n |-> 0, b |-> x]

\* The desired PreferenceSet, in the dict's insertion order.
I2P_PROXY_PREFS ==
    << [key |-> "network.proxy.http", value |-> StrV("127.0.0.1")],
       [key |-> "network.proxy.http_port", value |-> IntV(4444)],
       [key |-> "network.proxy.share_proxy_settings", value |-> BoolV(FALSE)],
       [key |-> "network.proxy.socks", value |-> StrV("")],
       [key |-> "network.proxy.socks_port", value |-> IntV(0)],
       [key |-> "network.proxy.socks_version", value |-> IntV(5)],
       [key |-> "network.proxy.ssl", value |-> StrV("127.0.0.1")],
       [key |-> "network.proxy.ssl_port", value |-> IntV(4444)],
       [key |-> "network.proxy.type", value |-> IntV(1)],
       [key |-> "network.proxy.no_proxies_on", value |-> StrV("localhost,127.0.0.1")],
       [key |-> "network.proxy.allow_hijacking_localhost", value |-> BoolV(TRUE)],
       [key |-> "network.proxy.socks_remote_dns", value |-> BoolV(FALSE)],
       [key |-> "media.peerconnection.ice.proxy_only", value |-> BoolV(TRUE)],
       [key |-> "keyword.enabled", value |-> BoolV(FALSE)] >>

desired == I2P_PROXY_PREFS

\* key in desired
InDesired(key) == \E i \in 1..Len(desired) : desired[i].key = key

\* desired[key]
DesiredValue(key) ==
    desired[CHOOSE i \in 1..Len(desired) : desired[i].key = key].value

(***************************************************************************)
(* Text of the script: tokens, format_value, build_line.                   *)
(***************************************************************************)
UP == "user_pref(\""
Q == "\""

Digit(d) ==
    CASE d = 0 -> "0" [] d = 1 -> "1" [] d = 2 -> "2" [] d = 3 -> "3"
      [] d = 4 -> "4" [] d = 5 -> "5" [] d = 6 -> "6" [] d = 7 -> "7"
      [] d = 8 -> "8" [] d = 9 -> "9"

\* str(value) of an int: its decimal digits, one token per digit.
RECURSIVE str(_)
str(n) ==
    IF n < 0 THEN << "-" >> \o str(-n)
    ELSE IF n < 10 THEN << Digit(n) >>
    ELSE str(n \div 10) \o << Digit(n % 10) >>

\* The str branch returns the quoted literal '"{}".format(value)' as it
\* stands in the generated script: the closing quote of the literal comes
\* after (value), so .format is text of the literal and is never called.
format_value(value) ==
    IF value.t = "str" THEN << Q, "{}", Q, ".format(value)" >>
    ELSE IF value.t = "bool" THEN << IF value.b THEN "true" ELSE "false" >>
    ELSE str(value.n)

build_line(key, value) ==
    << UP, key, Q, ", " >> \o format_value(value) \o << ");" >>

(***************************************************************************)
(* The merge loop of the script.                                           *)
(***************************************************************************)
IsSpace(tok) == tok \in {" ", "\t"}

RECURSIVE lstrip(_)
lstrip(line) ==
    IF line # << >> /\ IsSpace(Head(line)) THEN lstrip(Tail(line)) ELSE line

RECURSIVE rstrip(_)
rstrip(line) ==
    IF line # << >> /\ IsSpace(line[Len(line)])
    THEN rstrip(SubSeq(line, 1, Len(line) - 1))
    ELSE line

\* line.strip()
strip(line) == rstrip(lstrip(line))

\* stripped.startswith('user_pref("')
startswith_user_pref(stripped) == stripped # << >> /\ Head(stripped) = UP

\* The text of toks up to, not including, its first double quote.
RECURSIVE UpToQuote(_)
UpToQuote(toks) ==
    IF toks = << >> \/ Head(toks) = Q THEN ""
    ELSE Head(toks) \o UpToQuote(Tail(toks))

\* stripped.split('"', 2)[1], for a stripped line that starts with UP: the
\* first double quote is the one that ends UP.
split_key(stripped) == UpToQuote(Tail(stripped))

\* The test of the loop without line.strip().
RewritesUnstripped(line) ==
    /\ startswith_user_pref(line)
    /\ InDesired(split_key(line))

\* Whether the loop rewrites this line.
Rewrites(line) ==
    /\ startswith_user_pref(strip(line))
    /\ InDesired(split_key(strip(line)))

\* MergeStep with "continue" one level out: every line that starts with
\* user_pref(" is skipped, rewritten or not.
MergeStepDropsOthers(acc, line) ==
    IF Rewrites(line)
    THEN LET key == split_key(strip(line)) IN
         [updated |-> Append(acc.updated, build_line(key, DesiredValue(key))),
          seen |-> acc.seen \cup {key}]
    ELSE IF startswith_user_pref(strip(line)) THEN acc
    ELSE [acc EXCEPT !.updated = Append(@, line)]

\* MergeStep without seen.add(key).
MergeStepForgetsSeen(acc, line) ==
    IF Rewrites(line)
    THEN LET key == split_key(strip(line)) IN
         [acc EXCEPT !.updated = Append(@, build_line(key, DesiredValue(key)))]
    ELSE [acc EXCEPT !.updated = Append(@, line)]

\* One iteration of "for line in lines".
MergeStep(acc, line) ==
    IF Rewrites(line)
    THEN LET key == split_key(strip(line)) IN
         [updated |-> Append(acc.updated, build_line(key, DesiredValue(key))),
          seen |-> acc.seen \cup {key}]
    ELSE [acc EXCEPT !.updated = Append(@, line)]

RECURSIVE MergeLoop(_, _, _)
MergeLoop(ls, i, acc) ==
    IF i > Len(ls) THEN acc
    ELSE MergeLoop(ls, i + 1, MergeStep(acc, ls[i]))

\* AppendMissing putting each missing key before the lines, not after them.
RECURSIVE AppendMissingInFront(_, _, _)
AppendMissingInFront(updated, sn, i) ==
    IF i > Len(desired) THEN updated
    ELSE AppendMissingInFront(
             IF desired[i].key \notin sn
             THEN << build_line(desired[i].key, desired[i].value) >> \o updated
             ELSE updated,
             sn, i + 1)

\* "for key, value in desired.items(): if key not in seen: append".
RECURSIVE AppendMissing(_, _, _)
AppendMissing(updated, sn, i) ==
    IF i > Len(desired) THEN updated
    ELSE AppendMissing(
             IF desired[i].key \notin sn
             THEN Append(updated, build_line(desired[i].key, desired[i].value))
             ELSE updated,
             sn, i + 1)

(***************************************************************************)
(* The preference file: absent, or present with its content, a sequence of *)
(* chunks, each the text of a line with the terminator that follows it     *)
(* ("" for a last line that ends at the end of the file).                  *)
(***************************************************************************)
Absent == [exists |-> FALSE, content |-> << >>]
Present(c) == [exists |-> TRUE, content |-> c]

\* Both existence tests left out.
ExistsAlways(f) == TRUE

\* prefs_path.exists(), [ -f "$prefs_file" ]
Exists(f) == f.exists

\* read_text().splitlines(): the terminators are dropped.
splitlines(c) == [i \in 1..Len(c) |-> c[i].text]

\* "\n".join(updated_lines) + "\n"
joined(ls) ==
    IF ls = << >> THEN << [text |-> << >>, term |-> "\n"] >>
    ELSE [i \in 1..Len(ls) |-> [text |-> ls[i], term |-> "\n"]]

(***************************************************************************)
(* Command resolver and stack driver.                                      *)
(***************************************************************************)
NONE == << >>                           \* _COMPOSE_CMD is None
PLUGIN == << "docker", "compose" >>     \* [docker_bin, "compose"]
STANDALONE == << "docker-compose" >>    \* [docker_compose_bin]
ComposeFile == "docker-compose.yml"     \* str(compose_file)

\* docker: shutil.which("docker") finds it; plugin: docker compose version
\* exits 0; standalone: shutil.which("docker-compose") finds it.
Hosts ==
    { h \in [docker : BOOLEAN, plugin : BOOLEAN, standalone : BOOLEAN] :
        h.plugin => h.docker }

\* get_compose_base_cmd() with the two probes in the other order.
get_compose_base_cmd_standalone_first ==
    IF composeCmd # NONE THEN composeCmd
    ELSE IF host.standalone THEN STANDALONE
    ELSE IF host.docker /\ host.plugin THEN PLUGIN
    ELSE NONE

\* get_compose_base_cmd() looking the executables up on every call.
get_compose_base_cmd_uncached ==
    IF host.docker /\ host.plugin THEN PLUGIN
    ELSE IF host.standalone THEN STANDALONE
    ELSE NONE

\* What get_compose_base_cmd() returns, and leaves in _COMPOSE_CMD: a value
\* already cached is returned as it is; None is returned without being cached,
\* which leaves _COMPOSE_CMD as it was, None.
get_compose_base_cmd ==
    IF composeCmd # NONE THEN composeCmd
    ELSE IF host.docker /\ host.plugin THEN PLUGIN
    ELSE IF host.standalone THEN STANDALONE
    ELSE NONE

\* The processes get_compose_base_cmd() runs: the version check, when nothing
\* is cached and shutil.which("docker") finds the executable.
ProbeProcs ==
    IF composeCmd = NONE /\ host.docker
    THEN << << "docker", "compose", "version" >> >>
    ELSE << >>

\* full_cmd without the project name.
full_cmd_no_project(cmd, args) == cmd \o << "-f", ComposeFile >> \o args

\* full_cmd of run_compose
full_cmd(cmd, args) ==
    cmd \o << "-f", ComposeFile, "--project-name", PROJECT_NAME >> \o args

NoHost == [docker |-> FALSE, plugin |-> FALSE, standalone |-> FALSE]

\* What every run_compose(compose_file, args) does to the process state, and
\* the observation of the call: whether it returned None, whether it looked
\* the executables up, the host it then saw, and the processes it executed.
run_compose(args) ==
    LET cmd == get_compose_base_cmd IN
    /\ composeCmd' = cmd
    /\ probeCalls' = IF composeCmd = NONE THEN probeCalls + 1 ELSE probeCalls
    /\ errCount' = IF cmd = NONE THEN errCount + 1 ELSE errCount
    /\ last' = [verb |-> Head(args),
                args |-> args,
                cmd |-> cmd,
                unavailable |-> cmd = NONE,
                lookedUp |-> composeCmd = NONE,
                hostAt |-> IF composeCmd = NONE THEN host ELSE NoHost,
                probes |-> ProbeProcs,
                procs |-> ProbeProcs \o
                          (IF cmd = NONE THEN << >> ELSE << full_cmd(cmd, args) >>)]

NoCall ==
    [verb |-> "none", args |-> << >>, cmd |-> NONE, unavailable |-> FALSE,
     lookedUp |-> FALSE, hostAt |-> NoHost, probes |-> << >>, procs |-> << >>]

(***************************************************************************)
(* Inputs: the lines and files the initial state is drawn from.            *)
(***************************************************************************)
LinePool ==
    { << UP, "network.proxy.type", Q, ", ", "0", ");" >>,
      << UP, "network.proxy.http", Q, ", ", Q, "10.0.0.1", Q, ");" >>,
      << UP, "network.proxy.type", Q, ", ", "1", ");" >>,
      << UP, "browser.startup.page", Q, ", ", "3", ");" >>,
      << "// proxy" >>,
      << >>,
      << "\t" >>,
      << " ", UP, "keyword.enabled", Q, ", ", "true", ");" >>,
      << UP, "network.proxy.type", Q, ", ", "1", ");", " // note" >>,
      << UP, "keyword.enabled" >>,
      << "pref(", Q, "network.proxy.type", Q, ", ", "0", ");" >> }

\* The content with lines ls, each ended by eol, the last one only if final.
MkFile(ls, eol, final) ==
    [i \in 1..Len(ls) |->
        [text |-> ls[i], term |-> IF i = Len(ls) /\ ~final THEN "" ELSE eol]]

LineSeqs(n) == UNION { [1..k -> LinePool] : k \in 0..n }

\* Every file of at most n lines of the pool; a last line without a terminator
\* is not empty.
Files(n) ==
    {Absent} \cup
    { Present(c) :
        c \in { d \in { MkFile(ls, eol, final) :
                          ls \in LineSeqs(n), eol \in {"\n", "\r\n"},
                          final \in BOOLEAN } :
                  d = << >> \/ d[Len(d)].term # "" \/ d[Len(d)].text # << >> } }

\* The files the whole-program specification starts from.
SmallFiles ==
    { Absent,
      Present(<< >>),
      Present(MkFile(<< << UP, "network.proxy.type", Q, ", ", "0", ");" >>,
                        << "// proxy" >> >>, "\n", TRUE)) }

\* What ps --services --filter status=running may print, line by line.
PsOutputs ==
    { << >>,
      << << "tor-browser" >> >>,
      << << "tor-browser" >>, << " ", "i2p-browser", " " >> >> }

\* How long a ps query may take, in seconds: no time, or as long as the whole
\* timeout of wait_for_service.
PsDurations == {0, Timeout}

\* The text of a token sequence.
RECURSIVE Text(_)
Text(toks) == IF toks = << >> THEN "" ELSE Head(toks) \o Text(Tail(toks))

\* The names with their surrounding blanks kept.
names_unstripped(stdout) == { Text(stdout[i]) : i \in 1..Len(stdout) }

\* names = [line.strip() for line in (result.stdout or "").splitlines()]
names(stdout) == { Text(strip(stdout[i])) : i \in 1..Len(stdout) }

\* wait_for_service's result before the first query, the result None of a
\* query made with no command resolved, and the result of a query that
\* exits 0 and lists the service.
NoResult == [unavailable |-> FALSE, rc |-> -1, stdout |-> << >>]
ResultNone == [unavailable |-> TRUE, rc |-> -1, stdout |-> << >>]
ListedAtOnce ==
    [unavailable |-> FALSE, rc |-> 0,
     stdout |-> << << "tor-browser" >>, << " ", "i2p-browser", " " >> >>]

(***************************************************************************)
(* Initial states.                                                         *)
(***************************************************************************)
Init ==
    /\ host \in Hosts
    /\ composeCmd = NONE
    /\ pc = "menu"
    /\ ctl = "Idle"
    /\ trace = << "Idle" >>
    /\ calls = << >>
    /\ now = 0
    /\ deadline = 0
    /\ upExit = -1
    /\ waitResult = "none"
    /\ last = NoCall
    /\ ops = 0
    /\ probeCalls = 0
    /\ errCount = 0
    /\ file \in SmallFiles
    /\ lines = << >>
    /\ updated_lines = << >>
    /\ seen = {}
    /\ started = FALSE
    /\ exitStatus = -1
    /\ report = "none"
    /\ fileAtExec = Absent
    /\ outs = << >>
    /\ interval = PollInterval
    /\ sleeps = 0
    /\ result = NoResult
    /\ allInstant = TRUE
    /\ loggedCode = -1
    /\ extWrote = FALSE

ExecArgs == << "exec", "-T", I2P_SERVICE_NAME, "sh", "-c", "shell_script" >>
PsArgs == << "ps", "--services", "--filter", "status=running" >>

\* The state in which start_stack calls ensure_i2p_proxy_settings for the
\* first time (plugin form resolved by up, service listed by the first ps
\* query), with the preference file drawn from Files(MaxLines).
InitMerge ==
    /\ host = [docker |-> TRUE, plugin |-> TRUE, standalone |-> TRUE]
    /\ composeCmd = PLUGIN
    /\ pc = "ensure"
    /\ ctl = "Reconciling"
    /\ trace = << "Idle", "StackStarting", "AwaitingReadiness", "Reconciling" >>
    /\ calls = << "up", "ps" >>
    /\ now = 0
    /\ deadline = Timeout
    /\ upExit = 0
    /\ waitResult = "true"
    /\ last = [verb |-> "ps", args |-> PsArgs, cmd |-> PLUGIN, unavailable |-> FALSE,
               lookedUp |-> FALSE, hostAt |-> NoHost, probes |-> << >>,
               procs |-> << full_cmd(PLUGIN, PsArgs) >>]
    /\ ops = 1
    /\ probeCalls = 1
    /\ errCount = 0
    /\ file \in Files(MaxLines)
    /\ lines = << >>
    /\ updated_lines = << >>
    /\ seen = {}
    /\ started = FALSE
    /\ exitStatus = -1
    /\ report = "none"
    /\ fileAtExec = Absent
    /\ outs = << >>
    /\ interval = PollInterval
    /\ sleeps = 0
    /\ result = ListedAtOnce
    /\ allInstant = TRUE
    /\ loggedCode = -1
    /\ extWrote = FALSE

driverVars == << composeCmd, probeCalls, errCount, last >>
pollVars == << interval, sleeps, result, allInstant >>
waitVars == << now, deadline, waitResult, pollVars >>
scriptVars == << lines, updated_lines, seen, started >>
remoteVars == << file, fileAtExec, outs, extWrote >>

(***************************************************************************)
(* main: the menu.                                                         *)
(***************************************************************************)
\* Choice 1, start_stack up to the return of run_compose's call: None when no
\* command is resolved, else the up process is running.
MenuStart ==
    /\ pc = "menu"
    /\ ops < MaxOps
    /\ ops' = ops + 1
    /\ run_compose(<< "up", "-d", "--build" >>)
    /\ calls' = << "up" >>
    /\ IF get_compose_base_cmd = NONE
       THEN /\ ctl' = "Unavailable"
            /\ trace' = << "Idle", "StackStarting", "Unavailable" >>
            /\ pc' = "back"
       ELSE /\ ctl' = "StackStarting"
            /\ trace' = << "Idle", "StackStarting" >>
            /\ pc' = "up"
    /\ upExit' = -1
    /\ waitResult' = "none"
    /\ report' = "none"
    /\ exitStatus' = -1
    /\ loggedCode' = -1
    /\ UNCHANGED << host, now, deadline, pollVars, scriptVars, remoteVars >>

\* The exit status of up not looked at.
UpOkAny(rc) == TRUE

\* if result.returncode == 0, in start_stack
UpOk(rc) == rc = 0

\* start_stack after up returned: on exit 0 wait_for_service is entered and
\* computes its deadline, otherwise the failure is logged.
UpReturn ==
    /\ pc = "up"
    /\ \E rc \in {0, 1} :
        /\ upExit' = rc
        /\ IF UpOk(rc)
           THEN /\ ctl' = "AwaitingReadiness"
                /\ trace' = Append(trace, "AwaitingReadiness")
                /\ now' = 0
                /\ deadline' = 0 + Timeout
                /\ interval' = PollInterval
                /\ sleeps' = 0
                /\ result' = NoResult
                /\ allInstant' = TRUE
                /\ pc' = "wait_test"
                /\ UNCHANGED loggedCode
           ELSE /\ ctl' = "Failed"
                /\ trace' = Append(trace, "Failed")
                /\ loggedCode' = rc
                /\ pc' = "back"
                /\ UNCHANGED << now, deadline, pollVars >>
    /\ UNCHANGED << host, driverVars, calls, waitResult, ops, scriptVars,
                    remoteVars, exitStatus, report >>

\* Choices 2, 3, 4: stop_stack, show_status, show_logs; the exit status is
\* only logged.
SingleShot(args) ==
    /\ pc = "menu"
    /\ ops < MaxOps
    /\ ops' = ops + 1
    /\ run_compose(args)
    /\ pc' = "back"
    /\ UNCHANGED << host, ctl, trace, calls, waitVars, upExit, scriptVars,
                    remoteVars, exitStatus, report, loggedCode >>

MenuStop == SingleShot(<< "down" >>)
MenuStatus == SingleShot(<< "ps" >>)
MenuLogs == SingleShot(<< "logs", "--tail", "50", "-f" >>)

\* Choice 6, or end of input.
MenuQuit ==
    /\ pc = "menu"
    /\ pc' = "exited"
    /\ UNCHANGED << host, driverVars, ctl, trace, calls, waitVars, upExit, ops,
                    scriptVars, remoteVars, exitStatus, report, loggedCode >>

\* back_to_menu: the handler has returned and its locals are gone.
BackToMenu ==
    /\ pc = "back"
    /\ \E again \in BOOLEAN : pc' = IF again THEN "menu" ELSE "exited"
    /\ ctl' = "Idle"
    /\ trace' = << "Idle" >>
    /\ calls' = << >>
    /\ now' = 0
    /\ deadline' = 0
    /\ upExit' = -1
    /\ waitResult' = "none"
    /\ lines' = << >>
    /\ updated_lines' = << >>
    /\ seen' = {}
    /\ started' = FALSE
    /\ exitStatus' = -1
    /\ report' = "none"
    /\ interval' = PollInterval
    /\ sleeps' = 0
    /\ result' = NoResult
    /\ allInstant' = TRUE
    /\ loggedCode' = -1
    /\ UNCHANGED << host, driverVars, ops, remoteVars >>

(***************************************************************************)
(* wait_for_service.                                                       *)
(***************************************************************************)
\* The loop with the test time.time() <= deadline.
WaitTestInclusive ==
    /\ pc = "wait_test"
    /\ IF now <= deadline
       THEN /\ pc' = "wait_query"
            /\ UNCHANGED << waitResult, ctl, trace >>
       ELSE /\ waitResult' = "false"
            /\ ctl' = "Done"
            /\ trace' = trace \o << "ReadinessTimedOut", "Done" >>
            /\ pc' = "back"
    /\ UNCHANGED << host, driverVars, calls, now, deadline, pollVars, upExit, ops,
                    scriptVars, remoteVars, exitStatus, report, loggedCode >>

\* while time.time() < deadline; on exit the function returns False and
\* start_stack logs that the settings were not applied, then the URLs.
WaitTest ==
    /\ pc = "wait_test"
    /\ IF now < deadline
       THEN /\ pc' = "wait_query"
            /\ UNCHANGED << waitResult, ctl, trace >>
       ELSE /\ waitResult' = "false"
            /\ ctl' = "Done"
            /\ trace' = trace \o << "ReadinessTimedOut", "Done" >>
            /\ pc' = "back"
    /\ UNCHANGED << host, driverVars, calls, now, deadline, pollVars, upExit, ops,
                    scriptVars, remoteVars, exitStatus, report, loggedCode >>

\* The test without the exit status.
ServiceListedAnyExit(cmd, rc, stdout) ==
    /\ cmd # NONE
    /\ I2P_SERVICE_NAME \in names(stdout)

\* result is not None and result.returncode == 0 and service in names
ServiceListed(cmd, rc, stdout) ==
    /\ cmd # NONE
    /\ rc = 0
    /\ I2P_SERVICE_NAME \in names(stdout)

\* The ps query and the test of its result; the query takes d seconds.
WaitQuery ==
    /\ pc = "wait_query"
    /\ run_compose(PsArgs)
    /\ calls' = Append(calls, "ps")
    /\ \E d \in PsDurations, rc \in {0, 1}, stdout \in PsOutputs :
        /\ now' = now + d
        /\ allInstant' = (allInstant /\ d = 0)
        /\ result' = IF get_compose_base_cmd = NONE
                      THEN ResultNone
                      ELSE [unavailable |-> FALSE, rc |-> rc, stdout |-> stdout]
        /\ IF ServiceListed(get_compose_base_cmd, rc, stdout)
           THEN /\ waitResult' = "true"
                /\ ctl' = "Reconciling"
                /\ trace' = Append(trace, "Reconciling")
                /\ pc' = "ensure"
           ELSE /\ pc' = "wait_sleep"
                /\ UNCHANGED << waitResult, ctl, trace >>
    /\ UNCHANGED << host, deadline, interval, sleeps, upExit, ops, scriptVars,
                    remoteVars, exitStatus, report, loggedCode >>

\* A sleep of twice the interval.
WaitSleepTwice ==
    /\ pc = "wait_sleep"
    /\ now' = now + 2 * interval
    /\ sleeps' = sleeps + 1
    /\ pc' = "wait_test"
    /\ result' = NoResult
    /\ UNCHANGED << host, driverVars, ctl, trace, calls, deadline, upExit,
                    waitResult, interval, allInstant, ops, scriptVars,
                    remoteVars, exitStatus, report, loggedCode >>

\* time.sleep(poll_interval).  The result of the query is not read again:
\* the next query assigns it anew, and the model forgets it here.
WaitSleep ==
    /\ pc = "wait_sleep"
    /\ now' = now + interval
    /\ sleeps' = sleeps + 1
    /\ pc' = "wait_test"
    /\ result' = NoResult
    /\ UNCHANGED << host, driverVars, ctl, trace, calls, deadline, upExit,
                    waitResult, interval, allInstant, ops, scriptVars,
                    remoteVars, exitStatus, report, loggedCode >>

(***************************************************************************)
(* ensure_i2p_proxy_settings and the script it runs through exec.          *)
(***************************************************************************)
\* Exit statuses of an exec that fails: the engine could not run the script,
\* or the script died on an error (set -e).
ExecFailure == 1

\* run_compose(["exec", ...]): None when no command is resolved (the function
\* returns and start_stack goes on to print the URLs); otherwise the exec
\* process runs, and either the engine fails before the script starts or the
\* script starts in the service.
EnsureCall ==
    /\ pc = "ensure"
    /\ run_compose(ExecArgs)
    /\ calls' = Append(calls, "exec")
    /\ fileAtExec' = file
    /\ extWrote' = FALSE
    /\ lines' = << >>
    /\ updated_lines' = << >>
    /\ seen' = {}
    /\ IF get_compose_base_cmd = NONE
       THEN /\ report' = "unavailable"
            /\ started' = FALSE
            /\ exitStatus' = -1
            /\ ctl' = "Done"
            /\ trace' = Append(trace, "Done")
            /\ pc' = "back"
       ELSE /\ \E runs \in BOOLEAN :
                /\ started' = runs
                /\ IF runs
                   THEN exitStatus' = -1 /\ pc' = "sh_test"
                   ELSE exitStatus' = ExecFailure /\ pc' = "exec_ret"
            /\ UNCHANGED << report, ctl, trace >>
    /\ UNCHANGED << host, waitVars, upExit, ops, file, outs, loggedCode >>

\* if [ ! -f "$prefs_file" ]; then exit 0; fi
ShTest ==
    /\ pc = "sh_test"
    /\ IF ~Exists(file)
       THEN exitStatus' = 0 /\ pc' = "exec_ret"
       ELSE exitStatus' = exitStatus /\ pc' = "py_exists"
    /\ UNCHANGED << host, driverVars, ctl, trace, calls, waitVars, upExit, ops,
                    scriptVars, remoteVars, report, loggedCode >>

\* if not prefs_path.exists(): raise SystemExit(0)
PyExists ==
    /\ pc = "py_exists"
    /\ IF ~Exists(file)
       THEN exitStatus' = 0 /\ pc' = "exec_ret"
       ELSE exitStatus' = exitStatus /\ pc' = "py_read"
    /\ UNCHANGED << host, driverVars, ctl, trace, calls, waitVars, upExit, ops,
                    scriptVars, remoteVars, report, loggedCode >>

\* lines = prefs_path.read_text().splitlines(), then both loops.  read_text
\* raises when the file is missing or cannot be read.
PyRead ==
    /\ pc = "py_read"
    /\ \E readable \in BOOLEAN :
        IF readable /\ file.exists
        THEN LET ls == splitlines(file.content)
                 acc == MergeLoop(ls, 1, [updated |-> << >>, seen |-> {}])
             IN /\ lines' = ls
                /\ seen' = acc.seen
                /\ updated_lines' = AppendMissing(acc.updated, acc.seen, 1)
                /\ exitStatus' = exitStatus
                /\ pc' = "py_write"
        ELSE /\ exitStatus' = ExecFailure
             /\ pc' = "exec_ret"
             /\ UNCHANGED << lines, updated_lines, seen >>
    /\ UNCHANGED << host, driverVars, ctl, trace, calls, waitVars, upExit, ops,
                    started, remoteVars, report, loggedCode >>

\* prefs_path.write_text("\n".join(updated_lines) + "\n"); it raises when the
\* file cannot be opened for writing.
PyWrite ==
    /\ pc = "py_write"
    /\ \E writable \in BOOLEAN :
        IF writable
        THEN /\ file' = Present(joined(updated_lines))
             /\ outs' = Append(outs, Present(joined(updated_lines)))
             /\ exitStatus' = 0
        ELSE /\ exitStatus' = ExecFailure
             /\ UNCHANGED << file, outs >>
    /\ pc' = "exec_ret"
    /\ UNCHANGED << host, driverVars, ctl, trace, calls, waitVars, upExit, ops,
                    scriptVars, fileAtExec, extWrote, report, loggedCode >>

\* Every exit status reported as a success.
OutcomeAlwaysOk(status) == "ok"

\* if result.returncode == 0: log_ok(...) else: log_err(...)
Outcome(status) == IF status = 0 THEN "ok" ELSE "err"

\* The exec returned: ensure_i2p_proxy_settings logs by the exit status, and
\* start_stack prints the URLs.
EnsureReturn ==
    /\ pc = "exec_ret"
    /\ report' = Outcome(exitStatus)
    /\ loggedCode' = -1
    /\ ctl' = "Done"
    /\ trace' = Append(trace, "Done")
    /\ pc' = "back"
    /\ UNCHANGED << host, driverVars, calls, waitVars, upExit, ops, scriptVars,
                    remoteVars, exitStatus >>

(***************************************************************************)
(* The environment.                                                        *)
(***************************************************************************)
\* Tools are installed on, or removed from, the host while the program runs.
\* The host is read by run_compose alone, and only while nothing is cached,
\* so a change shows at the next such call; every such call follows a prompt.
HostChange ==
    /\ pc \in {"menu", "back"}
    /\ host' \in Hosts \ {host}
    /\ UNCHANGED << driverVars, pc, ctl, trace, calls, waitVars, upExit, ops,
                    scriptVars, remoteVars, exitStatus, report, loggedCode >>

\* A line no file of the model holds at the start.
ExternalLine == << UP, "browser.cache.disk.enable", Q, ", ", "false", ");" >>

\* Another process of the service (the browser, an editor) writes the file
\* while the script runs: it puts one line in front of what the file holds.
ExternalWrite ==
    /\ pc \in {"sh_test", "py_exists", "py_read", "py_write"}
    /\ ~extWrote
    /\ extWrote' = TRUE
    /\ file' = Present(<< [text |-> ExternalLine, term |-> "\n"] >> \o file.content)
    /\ UNCHANGED << host, driverVars, pc, ctl, trace, calls, waitVars, upExit, ops,
                    scriptVars, fileAtExec, outs, exitStatus, report, loggedCode >>

\* The user answers yes, picks choice 1 again, up exits 0 and the first ps
\* query lists the service: start_stack calls ensure_i2p_proxy_settings again.
StartStackAgain ==
    /\ pc = "back"
    /\ ops < MaxOps
    /\ ops' = ops + 1
    /\ pc' = "ensure"
    /\ ctl' = "Reconciling"
    /\ trace' = << "Idle", "StackStarting", "AwaitingReadiness", "Reconciling" >>
    /\ calls' = << "up", "ps" >>
    /\ now' = 0
    /\ deadline' = Timeout
    /\ upExit' = 0
    /\ waitResult' = "true"
    /\ report' = "none"
    /\ exitStatus' = -1
    /\ lines' = << >>
    /\ updated_lines' = << >>
    /\ seen' = {}
    /\ started' = FALSE
    /\ interval' = PollInterval
    /\ sleeps' = 0
    /\ result' = ListedAtOnce
    /\ allInstant' = TRUE
    /\ loggedCode' = -1
    /\ UNCHANGED << host, driverVars, remoteVars >>

(***************************************************************************)
(* Specifications.                                                         *)
(***************************************************************************)
Next ==
    \/ MenuStart
    \/ UpReturn
    \/ MenuStop
    \/ MenuStatus
    \/ MenuLogs
    \/ MenuQuit
    \/ BackToMenu
    \/ WaitTest
    \/ WaitQuery
    \/ WaitSleep
    \/ EnsureCall
    \/ ShTest
    \/ PyExists
    \/ PyRead
    \/ PyWrite
    \/ EnsureReturn
    \/ HostChange

\* The whole program.
Spec == Init /\ [][Next]_vars

NextMerge ==
    \/ EnsureCall
    \/ ShTest
    \/ PyExists
    \/ PyRead
    \/ PyWrite
    \/ EnsureReturn
    \/ StartStackAgain

\* The reconciler, applied over and over to every file of Files(MaxLines).
SpecMerge == InitMerge /\ [][NextMerge]_vars

NextExt ==
    \/ NextMerge
    \/ ExternalWrite

\* The reconciler next to another writer of the file.
SpecExt == InitMerge /\ [][NextExt]_vars

\* wait_for_service entered with a timeout of 0..MaxTimeout seconds and a
\* poll interval of 1..MaxInterval seconds, with the plugin form resolved or
\* on a host without any tool.
InitPoll ==
    /\ host \in { [docker |-> TRUE, plugin |-> TRUE, standalone |-> TRUE], NoHost }
    /\ composeCmd = IF host = NoHost THEN NONE ELSE PLUGIN
    /\ pc = "wait_test"
    /\ ctl = "AwaitingReadiness"
    /\ trace = << "Idle", "StackStarting", "AwaitingReadiness" >>
    /\ calls = << >>
    /\ now = 0
    /\ deadline \in 0..MaxTimeout
    /\ interval \in 1..MaxInterval
    /\ upExit = 0
    /\ waitResult = "none"
    /\ last = NoCall
    /\ ops = 1
    /\ probeCalls = 0
    /\ errCount = 0
    /\ file = Absent
    /\ lines = << >>
    /\ updated_lines = << >>
    /\ seen = {}
    /\ started = FALSE
    /\ exitStatus = -1
    /\ report = "none"
    /\ fileAtExec = Absent
    /\ outs = << >>
    /\ sleeps = 0
    /\ result = NoResult
    /\ allInstant = TRUE
    /\ loggedCode = -1
    /\ extWrote = FALSE

NextPoll ==
    \/ WaitTest
    \/ WaitQuery
    \/ WaitSleep

\* The poller alone; the thread goes on as long as it has a step to take.
SpecPoll == InitPoll /\ [][NextPoll]_vars /\ WF_vars(NextPoll)

(***************************************************************************)
(* Vocabulary of the properties.                                           *)
(***************************************************************************)
DesiredKeys == { desired[i].key : i \in 1..Len(desired) }

\* The line assigns key k, as the merge loop reads lines.
AssignmentOf(line, k) ==
    LET t == strip(line) IN t # << >> /\ Head(t) = UP /\ UpToQuote(Tail(t)) = k

AssignsDesired(line) == \E k \in DesiredKeys : AssignmentOf(line, k)

\* The lines of ls that assign no desired key, in their order.
RECURSIVE Keep(_)
Keep(ls) ==
    IF ls = << >> THEN << >>
    ELSE IF AssignsDesired(Head(ls)) THEN Keep(Tail(ls))
    ELSE << Head(ls) >> \o Keep(Tail(ls))

\* The script of the current run ran to its end on a file that existed.
Reconciled ==
    pc = "exec_ret" /\ started /\ fileAtExec.exists /\ exitStatus = 0

\* The lines reconcile found, and the lines it left.
In == splitlines(fileAtExec.content)
Out == splitlines(file.content)

Digits == {"0", "1", "2", "3", "4", "5", "6", "7", "8", "9"}

DigitValue(c) == CHOOSE d \in 0..9 : Digit(d) = c

RECURSIVE Decimal(_)
Decimal(toks) ==
    IF toks = << >> THEN 0
    ELSE 10 * Decimal(SubSeq(toks, 1, Len(toks) - 1)) + DigitValue(toks[Len(toks)])

\* v is the text the value must have on disk.
RendersByType(value, v) ==
    CASE value.t = "str" ->
            v = (IF value.s = "" THEN << Q, Q >> ELSE << Q, value.s, Q >>)
      [] value.t = "bool" ->
            v = << IF value.b THEN "true" ELSE "false" >>
      [] value.t = "int" ->
            /\ v # << >>
            /\ \A i \in 1..Len(v) : v[i] \in Digits
            /\ Len(v) > 1 => v[1] # "0"
            /\ Decimal(v) = value.n

\* The line is user_pref("k", v); with v as the type of value asks.
RendersLine(line, k, value) ==
    /\ Len(line) >= 6
    /\ SubSeq(line, 1, 4) = << UP, k, Q, ", " >>
    /\ line[Len(line)] = ");"
    /\ RendersByType(value, SubSeq(line, 5, Len(line) - 1))

(***************************************************************************)
(* C1: every assignment line the reconciler writes for a desired key       *)
(* renders the value by its type: a string in double quotes, a boolean as  *)
(* true or false, an integer as its decimal digits.                        *)
(***************************************************************************)
C1_ValueRenderedByType ==
    pc = "py_write" =>
        \A j \in 1..Len(updated_lines) : \A i \in 1..Len(desired) :
            AssignmentOf(updated_lines[j], desired[i].key) =>
                RendersLine(updated_lines[j], desired[i].key, desired[i].value)

(***************************************************************************)
(* C2: after reconcile completes on an existing file, whatever the file    *)
(* held, every desired key is assigned by exactly one line of the file.    *)
(* (The claim goes on: and that line carries the declared value; that half *)
(* is the rendering of C1.)                                                *)
(***************************************************************************)
Assignments(ls, k) == { j \in 1..Len(ls) : AssignmentOf(ls[j], k) }

C2_EveryKeyExactlyOnce ==
    Reconciled => \A k \in DesiredKeys : Cardinality(Assignments(Out, k)) = 1

(***************************************************************************)
(* C3: the lines that assign no desired key (comments, blanks, other text, *)
(* assignments of other keys) are in the output as they were in the input, *)
(* in the same order.                                                      *)
(***************************************************************************)
C3_OtherLinesPreserved == Reconciled => Keep(Out) = Keep(In)

C3_Witness ==
    /\ Reconciled
    /\ Len(In) = 2
    /\ AssignmentOf(In[1], "browser.startup.page")
    /\ In[2] = << "// proxy" >>
    /\ Len(Out) = 2 + Len(desired)
    /\ fileAtExec.content[1].term = "\r\n"

(***************************************************************************)
(* C4: reconcile is idempotent: a second application to the output of the  *)
(* first leaves the file as the first left it.                             *)
(***************************************************************************)
C4_Idempotent == \A i \in 2..Len(outs) : outs[i] = outs[i - 1]

C4_Witness ==
    /\ Len(outs) = 2
    /\ Len(outs[2].content) > Len(desired)
    /\ \E j \in 1..Len(outs[2].content) :
          ~AssignsDesired(outs[2].content[j].text)

(***************************************************************************)
(* C5: for an input of n lines, output line i in 1..n is the fresh         *)
(* assignment of the desired key found on input line i, or else input line *)
(* i; the output has n + m lines, m the number of desired keys on no input *)
(* line; lines n+1..n+m assign those keys in the order of desired.         *)
(***************************************************************************)
Fresh(k) == build_line(k, DesiredValue(k))

OnNoLine(ls, k) == \A j \in 1..Len(ls) : ~AssignmentOf(ls[j], k)

MissingFrom(ls) == SelectSeq(desired, LAMBDA e : OnNoLine(ls, e.key))

C5_InPlaceThenAppended ==
    Reconciled =>
        LET n == Len(In)
            missing == MissingFrom(In)
        IN /\ Len(Out) = n + Len(missing)
           /\ \A i \in 1..n :
                IF AssignsDesired(In[i])
                THEN \E k \in DesiredKeys :
                        AssignmentOf(In[i], k) /\ Out[i] = Fresh(k)
                ELSE Out[i] = In[i]
           /\ \A i \in 1..Len(missing) : Out[n + i] = Fresh(missing[i].key)

C5_Witness ==
    /\ Reconciled
    /\ Len(In) = 2
    /\ AssignmentOf(In[1], "network.proxy.type")
    /\ Out[1] # In[1]
    /\ ~AssignsDesired(In[2])
    /\ Len(Out) = 2 + Len(desired) - 1

(***************************************************************************)
(* C6: when the preference file does not exist as the script starts, the   *)
(* script stops at its first test, the exec exits 0, success is logged and *)
(* the file is still absent: nothing was written.                          *)
(***************************************************************************)
C6_AbsentFileNoOp ==
    (started /\ ~fileAtExec.exists) =>
        /\ pc \in {"sh_test", "exec_ret", "back"}
        /\ file = Absent
        /\ pc \in {"exec_ret", "back"} => exitStatus = 0
        /\ pc = "back" => report = "ok"

C6_Witness ==
    started /\ ~fileAtExec.exists /\ pc = "back" /\ report = "ok" /\ file = Absent

(***************************************************************************)
(* C7: in start_stack the driver is called in the order up, ps polls,      *)
(* exec; polling starts only after up exited 0; exec is called at most     *)
(* once and only after the poller returned true; a non-zero up ends the    *)
(* run in Failed with no poll and no exec; a poller timeout ends it in     *)
(* Done with reconcile skipped; and with up exit 0, readiness on the 2nd   *)
(* poll and exec exit 0 the states are exactly Idle, StackStarting,        *)
(* AwaitingReadiness, Reconciling, Done and success is reported.           *)
(***************************************************************************)
Polls == Cardinality({ i \in 1..Len(calls) : calls[i] = "ps" })

Execs == Cardinality({ i \in 1..Len(calls) : calls[i] = "exec" })

C7_StartStackOrder ==
    /\ calls # << >> =>
          /\ calls[1] = "up"
          /\ \A i \in 2..Len(calls) :
                calls[i] = "ps" \/ (calls[i] = "exec" /\ i = Len(calls))
    /\ Polls > 0 => upExit = 0
    /\ pc \in {"wait_test", "wait_query", "wait_sleep"} => upExit = 0
    /\ Execs <= 1
    /\ (Execs = 1 \/ pc = "ensure") => waitResult = "true"
    /\ upExit \notin {0, -1} =>
          ctl = "Failed" /\ calls = << "up" >> /\ pc = "back"
    /\ waitResult = "false" =>
          /\ ctl = "Done" /\ pc = "back" /\ Execs = 0 /\ report = "none"
          /\ trace = << "Idle", "StackStarting", "AwaitingReadiness",
                        "ReadinessTimedOut", "Done" >>
    /\ (pc = "back" /\ upExit = 0 /\ Polls = 2 /\ waitResult = "true"
            /\ exitStatus = 0) =>
          /\ trace = << "Idle", "StackStarting", "AwaitingReadiness",
                        "Reconciling", "Done" >>
          /\ report = "ok"

C7_Witness ==
    /\ pc = "back" /\ upExit = 0 /\ Polls = 2 /\ waitResult = "true"
    /\ exitStatus = 0 /\ report = "ok" /\ ctl = "Done"
    /\ calls = << "up", "ps", "ps", "exec" >>

(***************************************************************************)
(* C8: a resolution that probes the host returns the plugin form whenever  *)
(* docker exists and its compose version check exits 0, whether or not     *)
(* docker-compose exists too; otherwise the standalone form whenever       *)
(* docker-compose exists, with no process run to validate it; otherwise    *)
(* none.                                                                   *)
(***************************************************************************)
C8_SelectionPolicy ==
    last.lookedUp =>
        LET h == last.hostAt IN
        /\ (h.docker /\ h.plugin) => last.cmd = PLUGIN
        /\ (~(h.docker /\ h.plugin) /\ h.standalone) => last.cmd = STANDALONE
        /\ (~(h.docker /\ h.plugin) /\ ~h.standalone) => last.cmd = NONE
        /\ \A i \in 1..Len(last.probes) : Head(last.probes[i]) # "docker-compose"

C8_Witness ==
    /\ last.lookedUp
    /\ last.hostAt = [docker |-> TRUE, plugin |-> TRUE, standalone |-> TRUE]
    /\ last.cmd = PLUGIN

(***************************************************************************)
(* C9: over any sequence of driver calls the host is probed during at most *)
(* one call of get_compose_base_cmd, whatever that resolution returned.    *)
(***************************************************************************)
C9_ProbedAtMostOnce == probeCalls <= 1

(***************************************************************************)
(* C10: a driver call made while neither command form is available and    *)
(* none is cached returns None and executes no external process at all.    *)
(***************************************************************************)
C10_UnavailableRunsNothing ==
    (/\ last.lookedUp
     /\ ~(last.hostAt.docker /\ last.hostAt.plugin)
     /\ ~last.hostAt.standalone) =>
        last.unavailable /\ last.procs = << >>

(***************************************************************************)
(* C11: every process a driver call executes for a verb has the argument   *)
(* vector <resolved command> -f <manifest> --project-name <project> <verb> *)
(* <args...>; the only other process a call may execute is the resolver's  *)
(* version check that precedes it.                                         *)
(***************************************************************************)
MainProc == last.procs[Len(last.procs)]

C11_ScopedArgv ==
    (last.verb # "none" /\ ~last.unavailable) =>
        LET n == Len(last.cmd) IN
        /\ last.cmd \in {PLUGIN, STANDALONE}
        /\ last.verb \in {"up", "down", "ps", "logs", "exec"}
        /\ last.args[1] = last.verb
        /\ Len(last.procs) = Len(last.probes) + 1
        /\ SubSeq(last.procs, 1, Len(last.probes)) = last.probes
        /\ Len(MainProc) = n + 4 + Len(last.args)
        /\ SubSeq(MainProc, 1, n) = last.cmd
        /\ MainProc[n + 1] = "-f"
        /\ MainProc[n + 2] = ComposeFile
        /\ MainProc[n + 3] = "--project-name"
        /\ MainProc[n + 4] = PROJECT_NAME
        /\ SubSeq(MainProc, n + 5, Len(MainProc)) = last.args

C11_Witness ==
    /\ last.verb = "logs"
    /\ last.lookedUp
    /\ last.procs = << << "docker-compose", "-f", "docker-compose.yml",
                          "--project-name", "darkweb_portal",
                          "logs", "--tail", "50", "-f" >> >>

(***************************************************************************)
(* C12: wait_for_service returns True at the first query that lists the    *)
(* service: while it polls no query so far has listed it, a query that     *)
(* lists it is the last step of the call, and the call has then made one   *)
(* sleep less than it made queries.                                        *)
(***************************************************************************)
\* A line of the output names the service, blanks around it aside.
NamesTarget(line) ==
    SelectSeq(line, LAMBDA tok : ~IsSpace(tok)) = << I2P_SERVICE_NAME >>

\* The query ran, exited 0 and listed the service.
Lists(r) ==
    /\ ~r.unavailable
    /\ r.rc = 0
    /\ \E i \in 1..Len(r.stdout) : NamesTarget(r.stdout[i])

Polling == pc \in {"wait_test", "wait_query", "wait_sleep"}

C12_TrueAtFirstListing ==
    /\ Polling => ~Lists(result)
    /\ Lists(result) => waitResult = "true"
    /\ waitResult = "true" => Lists(result) /\ Polls >= 1 /\ sleeps = Polls - 1

C12_Witness ==
    waitResult = "true" /\ Lists(result) /\ Polls = 3 /\ sleeps = 2

(***************************************************************************)
(* C13: a ps query that exits non-zero or returns None is followed by the  *)
(* sleep of the loop and not by a return; the call returns False only with *)
(* the deadline passed, and True only on a query that exited 0 and listed  *)
(* the service.                                                            *)
(***************************************************************************)
QueryFailed == result.unavailable \/ result.rc > 0

C13_FailedQueryRetried ==
    /\ QueryFailed => (pc = "wait_sleep" /\ waitResult = "none")
    /\ waitResult = "false" => now >= deadline
    /\ waitResult = "true" =>
           /\ ~result.unavailable
           /\ result.rc = 0
           /\ \E i \in 1..Len(result.stdout) : NamesTarget(result.stdout[i])

C13_Witness ==
    /\ pc = "wait_sleep"
    /\ Polls = 3
    /\ errCount = 3
    /\ result.unavailable

(***************************************************************************)
(* C14: wait_for_service comes to an end, with False unless a query lists  *)
(* the service; when every query took no time it returns False no later    *)
(* than one poll interval after the deadline.                              *)
(***************************************************************************)
C14_Terminates ==
    /\ <>(waitResult = "false" \/ Lists(result))
    /\ []((waitResult = "false" /\ allInstant) => now <= deadline + interval)

C14_Witness ==
    waitResult = "false" /\ allInstant /\ Polls >= 2 /\ now > deadline

(***************************************************************************)
(* C15, as stated: what ensure_i2p_proxy_settings reports follows from the *)
(* driver result alone, and the report of a non-zero exit names that exit  *)
(* status.                                                                 *)
(***************************************************************************)
EnsureReturned == pc = "back" /\ Execs = 1

C15_OutcomeCarriesStatus ==
    EnsureReturned =>
        /\ last.unavailable => report = "unavailable"
        /\ (~last.unavailable /\ exitStatus # 0) =>
               report = "err" /\ loggedCode = exitStatus
        /\ (~last.unavailable /\ exitStatus = 0) => report = "ok"

(***************************************************************************)
(* C15, amended: what ensure_i2p_proxy_settings reports follows from the   *)
(* driver result alone: None gives the driver's own error, a non-zero exit *)
(* gives the failure message, which names no exit status, and exit 0 (the  *)
(* absent file included) gives the success message.                        *)
(***************************************************************************)
C15_OutcomeByDriverResult ==
    EnsureReturned =>
        /\ report \in {"unavailable", "err", "ok"}
        /\ last.unavailable => report = "unavailable"
        /\ (~last.unavailable /\ exitStatus # 0) =>
               report = "err" /\ loggedCode = -1
        /\ (~last.unavailable /\ exitStatus = 0) => report = "ok"

C15_Witness ==
    /\ EnsureReturned
    /\ exitStatus = ExecFailure
    /\ report = "err"
    /\ loggedCode = -1

(***************************************************************************)
(* C16: a line another process wrote to the file while the script ran is   *)
(* in the file when the script has ended.                                  *)
(***************************************************************************)
C16_NoClobber ==
    (pc \in {"exec_ret", "back"} /\ extWrote) =>
        \E i \in 1..Len(Out) : Out[i] = ExternalLine

(***************************************************************************)
(* C17, as stated: every line that is not of the exact shape               *)
(* user_pref("<key>", <value>); is in the output as it was in the input.   *)
(***************************************************************************)
ExactShape(line) ==
    /\ Len(line) >= 6
    /\ line[1] = UP
    /\ line[2] # Q
    /\ line[3] = Q
    /\ line[4] = ", "
    /\ line[Len(line)] = ");"

C17_OnlyExactShape ==
    Reconciled =>
        \A i \in 1..Len(In) :
            ~ExactShape(In[i]) => (i <= Len(Out) /\ Out[i] = In[i])

(***************************************************************************)
(* C17, amended: a line is an assignment of key k when, blanks at its ends *)
(* aside, it starts with user_pref(" and k is the text up to the next      *)
(* double quote or the end of the line; such a line of a desired key is    *)
(* replaced by the line built for k, whatever follows the key, and every   *)
(* other line is in the output as it was.                                  *)
(***************************************************************************)
KeysOf(line) == { k \in DesiredKeys : AssignmentOf(line, k) }

C17_RecognizedByPrefix ==
    Reconciled =>
        \A i \in 1..Len(In) :
            /\ i <= Len(Out)
            /\ KeysOf(In[i]) = {} => Out[i] = In[i]
            /\ \A k \in KeysOf(In[i]) : Out[i] = build_line(k, DesiredValue(k))

C17_Witness ==
    /\ Reconciled
    /\ In = << << " ", UP, "keyword.enabled", Q, ", ", "true", ");" >>,
               << "pref(", Q, "network.proxy.type", Q, ", ", "0", ");" >> >>
    /\ Out[1] = << UP, "keyword.enabled", Q, ", ", "false", ");" >>
    /\ Out[2] = In[2]

(***************************************************************************)
(* C18, as stated: a query precedes the deadline test, so a call that has  *)
(* returned has made a query, and a sleep begins only with the deadline    *)
(* still ahead.                                                            *)
(***************************************************************************)
C18_QueryBeforeDeadlineTest ==
    /\ waitResult # "none" => Polls >= 1
    /\ pc = "wait_sleep" => now < deadline

(***************************************************************************)
(* C18, amended: the deadline test comes first in every iteration, the     *)
(* query is issued only after a test that passed, and a sleep follows      *)
(* every query that did not list the service, whatever the clock says; a   *)
(* False return follows a deadline test that follows the entry or a sleep, *)
(* and a call with timeout 0 returns False without a query.                *)
(***************************************************************************)
C18_DeadlineTestFirst ==
    /\ pc = "wait_test" => Polls = sleeps
    /\ pc = "wait_query" => (Polls = sleeps /\ now < deadline)
    /\ pc = "wait_sleep" => (Polls = sleeps + 1 /\ ~Lists(result))
    /\ waitResult = "false" => (Polls = sleeps /\ now >= deadline)
    /\ (deadline = 0 /\ ~Polling) => (waitResult = "false" /\ Polls = 0)

C18_Witness ==
    /\ waitResult = "false"
    /\ deadline = 0
    /\ Polls = 0
    /\ sleeps = 0

(***************************************************************************)
(* C19: over any sequence of driver calls the error that no compose        *)
(* command is available is emitted at most once.                           *)
(***************************************************************************)
C19_ReportedOnce == errCount <= 1

(***************************************************************************)
(* C20: once a command is cached no step changes or clears it, and a call  *)
(* made from then on returns it without looking the executables up and is  *)
(* not unavailable, whatever the host then holds.                          *)
(***************************************************************************)
C20_MemoStable ==
    [][composeCmd # NONE =>
          /\ composeCmd' = composeCmd
          /\ probeCalls' = probeCalls
          /\ errCount' = errCount
          /\ last' # last =>
                 /\ last'.cmd = composeCmd
                 /\ ~last'.unavailable
                 /\ ~last'.lookedUp
                 /\ last'.probes = << >>]_vars

C20_Witness ==
    /\ composeCmd = PLUGIN
    /\ host = NoHost
    /\ last.verb = "down"
    /\ last.cmd = PLUGIN
    /\ ~last.lookedUp
    /\ ~last.unavailable
    /\ Len(last.procs) = 1

====
